---- MODULE Spec2Model ----
(***************************************************************************)
(* npack: the runtime asset-virtualization layer emitted by                *)
(* generateVFSCode (src/bundler/dev/generateVFSCode.js) together with the  *)
(* packaging-time collection of assets (src/bundler/index.js).             *)
(*                                                                         *)
(* Strings are sequences of atomic tokens.  A token is either one          *)
(* character ("/", "\\", ":", ".", a letter) or a whole word that the code *)
(* only ever compares as a unit ("migrations", "dist", "file", "app" ...). *)
(* Every pattern the code searches for starts at a "/" or at the start of  *)
(* the string, so token positions and character positions line up.         *)
(***************************************************************************)
EXTENDS Integers, Sequences, FiniteSets, TLC

VARIABLES
    phase,      \* "pack": the bundler is collecting; "run": the generated code runs
    appFiles,   \* the application's files as collected: sequence of [path, bytes]
    assets,     \* the bundler's Map `assets`, in insertion order
    VFS,        \* __NPACK_VFS: sequence of [path, content, encoding], insertion order
    dirname,    \* __dirname of the running bundle
    installs,   \* how many times the generated code has been evaluated
    call,       \* the last call the application made
    ret,        \* what that call returned or raised
    origCalls,  \* the un-wrapped primitives invoked while serving `call`
    executed    \* script executions since launch, in order: [path, depth]

vars == <<phase, appFiles, assets, VFS, dirname, installs, call, ret, origCalls, executed>>

----------------------------------------------------------------------------
(* String primitives of the host language, on token sequences.             *)

StartsWith(s, p) == Len(p) <= Len(s) /\ SubSeq(s, 1, Len(p)) = p

EndsWith(s, p) == Len(p) <= Len(s) /\ SubSeq(s, Len(s) - Len(p) + 1, Len(s)) = p

\* s.slice(n), n counted from 0
Slice(s, n) == SubSeq(s, n + 1, Len(s))

\* 0-based positions at which p occurs in s
Occurrences(s, p) == {i \in 0..(Len(s) - Len(p)) : SubSeq(s, i + 1, i + Len(p)) = p}

Includes(s, p) == Occurrences(s, p) # {}

SetMax(S) == CHOOSE m \in S : \A n \in S : n <= m

SetMin(S) == CHOOSE m \in S : \A n \in S : m <= n

LastIndexOf(s, p) ==
    LET at == Occurrences(s, p) IN IF at = {} THEN -1 ELSE SetMax(at)

IndexOf(s, p) ==
    LET at == Occurrences(s, p) IN IF at = {} THEN -1 ELSE SetMin(at)

\* s.split(sep) for a one-token separator: the sequence of pieces
RECURSIVE Split(_, _)
Split(s, sep) ==
    LET at == IndexOf(s, <<sep>>)
    IN IF at = -1 THEN <<s>> ELSE <<SubSeq(s, 1, at)>> \o Split(Slice(s, at + 1), sep)

\* pieces.join(sep)
RECURSIVE Join(_, _)
Join(pieces, sep) ==
    IF Len(pieces) = 0 THEN <<>>
    ELSE IF Len(pieces) = 1 THEN pieces[1]
    ELSE pieces[1] \o <<sep>> \o Join(Tail(pieces), sep)

\* array.pop() as used on the result of split: the last piece
Pop(pieces) == pieces[Len(pieces)]

\* the literals the generated code compares against
Slash == "/"
Backslash == "\\"
FileScheme == <<"file", ":", "/", "/">>
DistSegment == <<"/", "dist", "/">>
MigrationsSegment == <<"/", "migrations", "/">>
MigrationsDir == <<"/", "migrations">>
DoubleSlash == <<"/", "/">>
DotJs == <<".", "js">>
Letters == {"a", "b", "c", "x"}

----------------------------------------------------------------------------
(* __NPACK_normalizePath                                                   *)

\* normalized.replace(/^[A-Z]:/i, '')
StripDrive(s) ==
    IF Len(s) >= 2 /\ s[1] \in Letters /\ s[2] = ":" THEN Slice(s, 2) ELSE s

\* while (normalized.includes("//")) normalized = normalized.replace("//", "/")
RECURSIVE CollapseSlashes(_)
CollapseSlashes(s) ==
    LET at == IndexOf(s, DoubleSlash)
    IN IF at = -1 THEN s ELSE CollapseSlashes(SubSeq(s, 1, at) \o Slice(s, at + 1))

StripScheme(s) == IF StartsWith(s, FileScheme) THEN Slice(s, Len(FileScheme)) ELSE s

\* slice(distIndex + 5): everything from the "/" that closes "/dist/"
StripDist(s) ==
    LET distIndex == LastIndexOf(s, DistSegment)
    IN IF distIndex # -1 THEN Slice(s, distIndex + Len(DistSegment) - 1) ELSE s

StripBase(s) == IF StartsWith(s, dirname) THEN Slice(s, Len(dirname)) ELSE s

LeadSlash(s) == IF StartsWith(s, <<Slash>>) THEN s ELSE <<Slash>> \o s

BackToForward(s) == [i \in 1..Len(s) |-> IF s[i] = Backslash THEN Slash ELSE s[i]]

__NPACK_normalizePath(filePath) ==
    IF filePath = <<>> THEN filePath
    ELSE LeadSlash(CollapseSlashes(StripBase(StripDist(StripDrive(StripScheme(BackToForward(filePath)))))))

----------------------------------------------------------------------------
(* The Store and the resolver.  A record is identified by its position in  *)
(* __NPACK_VFS; 0 stands for "no record" (undefined / null).               *)

VFSKeys == {VFS[i].path : i \in 1..Len(VFS)}

\* __NPACK_VFS[key]
VFSIndex(key) ==
    IF \E i \in 1..Len(VFS) : VFS[i].path = key
    THEN CHOOSE i \in 1..Len(VFS) : VFS[i].path = key
    ELSE 0

SuffixHit(vfsPath, normalized) == EndsWith(normalized, vfsPath)

PrefixHit(vfsPath, normalized) == EndsWith(vfsPath, normalized)

\* a variant without the relaxed rule: the whole path has to be equal
FilenameHitWholePath(vfsPath, normalized) == vfsPath = normalized

FilenameHit(vfsPath, normalized) ==
    /\ Includes(vfsPath, MigrationsSegment)
    /\ Includes(normalized, MigrationsSegment)
    /\ Pop(Split(vfsPath, Slash)) = Pop(Split(normalized, Slash))

\* one iteration of the for-loop of __NPACK_getFromVFS
EntryHit(vfsPath, normalized) ==
    \/ SuffixHit(vfsPath, normalized)
    \/ PrefixHit(vfsPath, normalized)
    \/ FilenameHit(vfsPath, normalized)

FirstHit(normalized) ==
    LET hits == {i \in 1..Len(VFS) : EntryHit(VFS[i].path, normalized)}
    IN IF hits # {} THEN SetMin(hits) ELSE 0

__NPACK_getFromVFS(filePath) ==
    LET normalized == __NPACK_normalizePath(filePath)
        exact == VFSIndex(normalized)
    IN IF exact # 0 THEN exact ELSE FirstHit(normalized)

\* a variant that knows exact keys only
isInVFSExact(filePath) == VFSIndex(__NPACK_normalizePath(filePath)) # 0

__NPACK_isInVFS(filePath) ==
    LET normalized == __NPACK_normalizePath(filePath)
    IN \/ VFSIndex(normalized) # 0
       \/ \E i \in 1..Len(VFS) :
             \/ VFS[i].path = normalized
             \/ EndsWith(VFS[i].path, normalized)
             \/ EndsWith(normalized, VFS[i].path)

----------------------------------------------------------------------------
(* __NPACK_listVFSDir                                                      *)

\* Set.add on an insertion-ordered set
SetAdd(files, name) ==
    IF \E i \in 1..Len(files) : files[i] = name THEN files ELSE Append(files, name)

\* vfsPath.slice(normalized.length + 1).split("/")[0], added if non-empty
AddChild(files, vfsPath, normalized) ==
    IF StartsWith(vfsPath, normalized \o <<Slash>>)
    THEN LET firstPart == Split(Slice(vfsPath, Len(normalized) + 1), Slash)[1]
         IN IF firstPart # <<>> THEN SetAdd(files, firstPart) ELSE files
    ELSE files

\* vfsPath.split('/migrations/')[1]?.split('/')[0] for a path that starts
\* with '/migrations/': the piece between the first and the second
\* occurrence of '/migrations/', cut at its first "/"
MigrationChild(vfsPath) ==
    LET rest == Slice(vfsPath, Len(MigrationsSegment))
        piece == IF Includes(rest, MigrationsSegment)
                 THEN SubSeq(rest, 1, IndexOf(rest, MigrationsSegment))
                 ELSE rest
    IN Split(piece, Slash)[1]

\* a variant of the namespace branch that applies to /migrations itself only
AddMigrationRootOnly(files, vfsPath, normalized) ==
    IF normalized = MigrationsDir /\ StartsWith(vfsPath, MigrationsSegment)
    THEN LET fileName == MigrationChild(vfsPath)
         IN IF fileName # <<>> THEN SetAdd(files, fileName) ELSE files
    ELSE files

AddMigration(files, vfsPath, normalized) ==
    IF (EndsWith(normalized, MigrationsDir) \/ normalized = MigrationsDir)
          /\ StartsWith(vfsPath, MigrationsSegment)
    THEN LET fileName == MigrationChild(vfsPath)
         IN IF fileName # <<>> THEN SetAdd(files, fileName) ELSE files
    ELSE files

RECURSIVE ListLoop(_, _, _)
ListLoop(i, files, normalized) ==
    IF i > Len(VFS) THEN files
    ELSE ListLoop(i + 1,
                  AddMigration(AddChild(files, VFS[i].path, normalized), VFS[i].path, normalized),
                  normalized)

ListedFiles(dirPath) == ListLoop(1, <<>>, __NPACK_normalizePath(dirPath))

\* a variant that returns Array.from(files) whatever its size
listVFSDirAlwaysArray(dirPath) == [kind |-> "array", items |-> ListedFiles(dirPath)]

\* files.size > 0 ? Array.from(files) : null
__NPACK_listVFSDir(dirPath) ==
    LET files == ListedFiles(dirPath)
    IN IF Len(files) > 0 THEN [kind |-> "array", items |-> files] ELSE [kind |-> "null", items |-> <<>>]

----------------------------------------------------------------------------
(* Buffer.from(content, encoding) and buffer.toString(...).  Bytes are     *)
(* 0..255.  A base64 text is a sequence of sextet values 0..63 (the        *)
(* position of the character in the base64 alphabet), 64 being "=".        *)

Base64Pad == 64

\* content.toString("base64"), as scanDirectory stores it
RECURSIVE Base64Encode(_)
Base64Encode(b) ==
    IF Len(b) = 0 THEN <<>>
    ELSE IF Len(b) = 1 THEN <<b[1] \div 4, (b[1] % 4) * 16, Base64Pad, Base64Pad>>
    ELSE IF Len(b) = 2
    THEN <<b[1] \div 4, (b[1] % 4) * 16 + (b[2] \div 16), (b[2] % 16) * 4, Base64Pad>>
    ELSE <<b[1] \div 4, (b[1] % 4) * 16 + (b[2] \div 16),
           (b[2] % 16) * 4 + (b[3] \div 64), b[3] % 64>> \o Base64Encode(Slice(b, 3))

\* the sextets before the first "="
Base64Body(t) == IF IndexOf(t, <<Base64Pad>>) = -1 THEN t ELSE SubSeq(t, 1, IndexOf(t, <<Base64Pad>>))

RECURSIVE Base64DecodeBody(_)
Base64DecodeBody(t) ==
    IF Len(t) < 2 THEN <<>>
    ELSE IF Len(t) = 2 THEN <<t[1] * 4 + (t[2] \div 16)>>
    ELSE IF Len(t) = 3 THEN <<t[1] * 4 + (t[2] \div 16), (t[2] % 16) * 16 + (t[3] \div 4)>>
    ELSE <<t[1] * 4 + (t[2] \div 16), (t[2] % 16) * 16 + (t[3] \div 4), (t[3] % 4) * 64 + t[4]>>
         \o Base64DecodeBody(Slice(t, 4))

Base64Decode(t) == Base64DecodeBody(Base64Body(t))

\* a text is a sequence of code points
Utf8EncodeOne(cp) ==
    IF cp < 128 THEN <<cp>>
    ELSE IF cp < 2048 THEN <<192 + (cp \div 64), 128 + (cp % 64)>>
    ELSE IF cp < 65536 THEN <<224 + (cp \div 4096), 128 + ((cp \div 64) % 64), 128 + (cp % 64)>>
    ELSE <<240 + (cp \div 262144), 128 + ((cp \div 4096) % 64), 128 + ((cp \div 64) % 64), 128 + (cp % 64)>>

RECURSIVE Utf8Encode(_)
Utf8Encode(text) ==
    IF Len(text) = 0 THEN <<>> ELSE Utf8EncodeOne(text[1]) \o Utf8Encode(Tail(text))

Replacement == 65533

IsCont(x) == x >= 128 /\ x <= 191

\* buffer.toString("utf8"): ill-formed input decodes to U+FFFD
RECURSIVE Utf8Decode(_)
Utf8Decode(b) ==
    IF Len(b) = 0 THEN <<>>
    ELSE IF b[1] < 128 THEN <<b[1]>> \o Utf8Decode(Tail(b))
    ELSE IF b[1] >= 194 /\ b[1] <= 223
    THEN IF Len(b) >= 2 /\ IsCont(b[2])
         THEN <<(b[1] - 192) * 64 + (b[2] - 128)>> \o Utf8Decode(Slice(b, 2))
         ELSE <<Replacement>> \o Utf8Decode(Tail(b))
    ELSE IF b[1] >= 224 /\ b[1] <= 239
    THEN IF Len(b) >= 2 /\ b[2] >= (IF b[1] = 224 THEN 160 ELSE 128)
                        /\ b[2] <= (IF b[1] = 237 THEN 159 ELSE 191)
         THEN IF Len(b) >= 3 /\ IsCont(b[3])
              THEN <<(b[1] - 224) * 4096 + (b[2] - 128) * 64 + (b[3] - 128)>> \o Utf8Decode(Slice(b, 3))
              ELSE <<Replacement>> \o Utf8Decode(Slice(b, 2))
         ELSE <<Replacement>> \o Utf8Decode(Tail(b))
    ELSE IF b[1] >= 240 /\ b[1] <= 244
    THEN IF Len(b) >= 2 /\ b[2] >= (IF b[1] = 240 THEN 144 ELSE 128)
                        /\ b[2] <= (IF b[1] = 244 THEN 143 ELSE 191)
         THEN IF Len(b) >= 3 /\ IsCont(b[3])
              THEN IF Len(b) >= 4 /\ IsCont(b[4])
                   THEN <<(b[1] - 240) * 262144 + (b[2] - 128) * 4096 + (b[3] - 128) * 64 + (b[4] - 128)>>
                        \o Utf8Decode(Slice(b, 4))
                   ELSE <<Replacement>> \o Utf8Decode(Slice(b, 3))
              ELSE <<Replacement>> \o Utf8Decode(Slice(b, 2))
         ELSE <<Replacement>> \o Utf8Decode(Tail(b))
    ELSE <<Replacement>> \o Utf8Decode(Tail(b))

\* Buffer.from(vfsData.content, vfsData.encoding)
BufferFrom(content, encoding) ==
    IF encoding = "base64" THEN Base64Decode(content) ELSE Utf8Encode(content)

----------------------------------------------------------------------------
(* The host's own filesystem, as the un-wrapped primitives see it: a small *)
(* disk on which a path's last component decides what it is.               *)

LastComponent(p) == Pop(Split(BackToForward(p), Slash))

RealNode(p) ==
    IF LastComponent(p) = <<"ln">> THEN "dangling-symlink"
    ELSE IF LastComponent(p) = <<"etc">> THEN "directory"
    ELSE IF LastComponent(p) = <<"c", ".", "js">> THEN "file"
    ELSE "absent"

RealBytes == <<99>>

NoOptions == [t |-> "undefined", v |-> "undefined"]

\* the encoding a primitive is asked for: options itself when it is a
\* string, options.encoding when it is an object
EncodingOf(options) == IF options.t = "undefined" THEN "undefined" ELSE options.v

Throws(code) == [throws |-> TRUE, value |-> code]

Returns(v) == [throws |-> FALSE, value |-> v]

Real(name, p, options) ==
    IF name \in {"readFileSync", "promises.readFile"}
    THEN IF RealNode(p) = "file"
         THEN IF EncodingOf(options) \in {"utf8", "utf-8"}
              THEN Returns([type |-> "string", data |-> Utf8Decode(RealBytes)])
              ELSE Returns([type |-> "buffer", data |-> RealBytes])
         ELSE IF RealNode(p) = "directory" THEN Throws("EISDIR") ELSE Throws("ENOENT")
    ELSE IF name = "existsSync"
    THEN Returns(RealNode(p) \in {"file", "directory"})
    ELSE IF name = "statSync"
    THEN IF RealNode(p) = "file" THEN Returns([kind |-> "file", size |-> Len(RealBytes)])
         ELSE IF RealNode(p) = "directory" THEN Returns([kind |-> "directory", size |-> 0])
         ELSE Throws("ENOENT")
    ELSE IF name = "lstatSync"
    THEN IF RealNode(p) = "file" THEN Returns([kind |-> "file", size |-> Len(RealBytes)])
         ELSE IF RealNode(p) = "directory" THEN Returns([kind |-> "directory", size |-> 0])
         ELSE IF RealNode(p) = "dangling-symlink" THEN Returns([kind |-> "symlink", size |-> 0])
         ELSE Throws("ENOENT")
    ELSE \* readdirSync, promises.readdir, promises.opendir
         IF RealNode(p) = "directory" THEN Returns([kind |-> name, items |-> <<>>])
         ELSE IF RealNode(p) = "file" THEN Throws("ENOTDIR") ELSE Throws("ENOENT")

\* one invocation of a captured original
Invocation(name, p, options) == [name |-> name, path |-> p, options |-> options]

CallOriginal(name, p, options) ==
    [ans |-> [src |-> "orig", value |-> Real(name, p, options)],
     orig |-> <<Invocation(name, p, options)>>,
     wraps |-> 0]

Answer(a) == [ans |-> a, orig |-> <<>>, wraps |-> 1]

\* the call went through one more wrapper before it was answered
Through(r) == [r EXCEPT !.wraps = @ + 1]

----------------------------------------------------------------------------
(* The wrappers the generated code installs on fs.  Each evaluation of the *)
(* generated code captures whatever fs holds at that moment as "original"  *)
(* and installs a wrapper over it, so wrapper number `layer` delegates to  *)
(* wrapper number layer - 1, and number 0 is the host's primitive.         *)

\* options === "utf8" || options?.encoding === "utf8"
WantsUtf8(options) ==
    \/ (options.t = "string" /\ options.v = "utf8")
    \/ (options.t = "object" /\ options.v = "utf8")

FileData(idx, options) ==
    IF WantsUtf8(options)
    THEN [src |-> "vfs", type |-> "string", rec |-> idx,
          data |-> Utf8Decode(BufferFrom(VFS[idx].content, VFS[idx].encoding))]
    ELSE [src |-> "vfs", type |-> "buffer", rec |-> idx,
          data |-> BufferFrom(VFS[idx].content, VFS[idx].encoding)]

RECURSIVE readFileSync(_, _, _)
readFileSync(layer, filePath, options) ==
    IF layer = 0 THEN CallOriginal("readFileSync", filePath, options)
    ELSE LET vfsData == __NPACK_getFromVFS(filePath)
         IN IF vfsData # 0 THEN Answer(FileData(vfsData, options))
            ELSE Through(readFileSync(layer - 1, filePath, options))

RECURSIVE promisesReadFile(_, _, _)
promisesReadFile(layer, filePath, options) ==
    IF layer = 0 THEN CallOriginal("promises.readFile", filePath, options)
    ELSE LET vfsData == __NPACK_getFromVFS(filePath)
         IN IF vfsData # 0 THEN Answer(FileData(vfsData, options))
            ELSE Through(promisesReadFile(layer - 1, filePath, options))

RECURSIVE existsSync(_, _)
existsSync(layer, filePath) ==
    IF layer = 0 THEN CallOriginal("existsSync", filePath, NoOptions)
    ELSE IF __NPACK_listVFSDir(filePath).kind # "null"
    THEN Answer([src |-> "vfs", type |-> "boolean", data |-> TRUE])
    ELSE IF __NPACK_isInVFS(filePath)
    THEN Answer([src |-> "vfs", type |-> "boolean", data |-> TRUE])
    ELSE Through(existsSync(layer - 1, filePath))

\* a variant that takes the size of the stored base64 text
FileStatsStoredLength(idx) ==
    [src |-> "vfs", type |-> "stats", isFile |-> TRUE, isDirectory |-> FALSE, isSymbolicLink |-> FALSE,
     size |-> Len(VFS[idx].content)]

FileStats(idx) ==
    [src |-> "vfs", type |-> "stats", isFile |-> TRUE, isDirectory |-> FALSE, isSymbolicLink |-> FALSE,
     size |-> Len(BufferFrom(VFS[idx].content, VFS[idx].encoding))]

DirectoryStats ==
    [src |-> "vfs", type |-> "stats", isFile |-> FALSE, isDirectory |-> TRUE, isSymbolicLink |-> FALSE,
     size |-> 0]

RECURSIVE statSync(_, _, _)
statSync(layer, filePath, options) ==
    IF layer = 0 THEN CallOriginal("statSync", filePath, options)
    ELSE LET vfsData == __NPACK_getFromVFS(filePath)
         IN IF vfsData # 0 THEN Answer(FileStats(vfsData))
            ELSE IF __NPACK_listVFSDir(filePath).kind # "null" THEN Answer(DirectoryStats)
            ELSE Through(statSync(layer - 1, filePath, options))

\* return __NPACK_ORIG_FS.statSync(filePath, options): whatever fs.statSync
\* is at the time of the call, i.e. the outermost statSync wrapper
lstatSync(layer, filePath, options) ==
    IF layer = 0 THEN CallOriginal("lstatSync", filePath, options)
    ELSE Through(statSync(installs, filePath, options))

RECURSIVE readdirSync(_, _, _)
readdirSync(layer, dirPath, options) ==
    IF layer = 0 THEN CallOriginal("readdirSync", dirPath, options)
    ELSE LET vfsFiles == __NPACK_listVFSDir(dirPath)
         IN IF vfsFiles.kind # "null"
            THEN Answer([src |-> "vfs", type |-> "array", data |-> vfsFiles.items])
            ELSE Through(readdirSync(layer - 1, dirPath, options))

RECURSIVE promisesReaddir(_, _, _)
promisesReaddir(layer, dirPath, options) ==
    IF layer = 0 THEN CallOriginal("promises.readdir", dirPath, options)
    ELSE LET vfsFiles == __NPACK_listVFSDir(dirPath)
         IN IF vfsFiles.kind # "null"
            THEN Answer([src |-> "vfs", type |-> "array", data |-> vfsFiles.items])
            ELSE Through(promisesReaddir(layer - 1, dirPath, options))

RECURSIVE promisesOpendir(_, _, _)
promisesOpendir(layer, dirPath, options) ==
    IF layer = 0 THEN CallOriginal("promises.opendir", dirPath, options)
    ELSE LET vfsFiles == __NPACK_listVFSDir(dirPath)
         IN IF vfsFiles.kind # "null"
            THEN Answer([src |-> "vfs", type |-> "dir", path |-> dirPath, data |-> vfsFiles.items])
            ELSE Through(promisesOpendir(layer - 1, dirPath, options))

----------------------------------------------------------------------------
(* VFSMigrationSource.getMigration.  A script is a text whose characters   *)
(* each stand for one statement: character 8 * kind + arg.                 *)
(*   kind 1  require(id)                 kind 2  import x from id          *)
(*   kind 3  throw new Error()           kind 4  exports.up = ...          *)
(*   kind 5  export function up ...      kind 6  export { up }             *)
(* arg selects the module id of kinds 1 and 2.  Kinds 2, 5 and 6 are       *)
(* module syntax, which `new Function` rejects with a SyntaxError; the     *)
(* substitution rules of getMigration turn kind 2 into kind 1 and kind 5   *)
(* into kind 4 and match nothing in kind 6.                                *)

StackLimit == 3     \* nested script executions the host's stack allows

Dot == "."

ModuleIds ==
    <<  <<Dot, Slash, "a">>,                      \* './a'
        <<Dot, Dot, Slash, "a">>,                 \* '../a'
        <<Dot, Slash, "b">>,                      \* './b'
        <<"lodash">>,
        <<"zzz">>,
        <<Dot, Slash, "sub", Slash, "a">>,        \* './sub/a'
        <<Dot, Slash, Dot, Dot, Slash, Dot, Dot, Slash, "sub", Slash, "a">>,    \* './../../sub/a'
        <<"pg">> >>

StatementKind(c) == c \div 8

StatementId(c) == ModuleIds[(c % 8) + 1]

Statement(kind, arg) == 8 * kind + arg

\* the code.replace(...) rules, statement by statement
RewriteStatement(c) ==
    IF StatementKind(c) = 2 THEN Statement(1, c % 8)
    ELSE IF StatementKind(c) = 5 THEN Statement(4, 0)
    ELSE c

Rewrite(code) == [i \in 1..Len(code) |-> RewriteStatement(code[i])]

\* new Function(..., code) throws a SyntaxError
HasModuleSyntax(code) == \E i \in 1..Len(code) : StatementKind(code[i]) \in {2, 5, 6}

\* the keys of moduleCache as getMigration builds it
AllowList == { <<"bpium-api">>, <<"lodash">>, <<"debug">>, <<"fs">>, <<"path">> }

IsRelative(id) == StartsWith(id, <<Dot, Slash>>) \/ StartsWith(id, <<Dot, Dot, Slash>>)

\* id.replace(/^\.\.?\//, '')
StripDotSlash(id) ==
    IF StartsWith(id, <<Dot, Slash>>) THEN Slice(id, 2)
    ELSE IF StartsWith(id, <<Dot, Dot, Slash>>) THEN Slice(id, 3)
    ELSE id

\* for (const part of parts) { '..' pops, '.' is skipped, others are pushed }
RECURSIVE NormalizeParts(_, _)
NormalizeParts(parts, normalized) ==
    IF Len(parts) = 0 THEN normalized
    ELSE IF parts[1] = <<Dot, Dot>>
    THEN NormalizeParts(Tail(parts), SubSeq(normalized, 1, Len(normalized) - 1))
    ELSE IF parts[1] = <<Dot>> THEN NormalizeParts(Tail(parts), normalized)
    ELSE NormalizeParts(Tail(parts), Append(normalized, parts[1]))

\* .filter(Boolean)
RECURSIVE NonEmpty(_)
NonEmpty(parts) ==
    IF Len(parts) = 0 THEN <<>>
    ELSE IF parts[1] = <<>> THEN NonEmpty(Tail(parts))
    ELSE <<parts[1]>> \o NonEmpty(Tail(parts))

ResolveRelative(id) ==
    LET joined == MigrationsDir \o <<Slash>> \o StripDotSlash(id)
        resolvedPath == <<Slash>> \o Join(NormalizeParts(NonEmpty(Split(joined, Slash)), <<>>), Slash)
    IN IF EndsWith(resolvedPath, DotJs) THEN resolvedPath ELSE resolvedPath \o DotJs

ScriptText(idx) == Utf8Decode(BufferFrom(VFS[idx].content, VFS[idx].encoding))

\* the state of one getMigration call: the ids in moduleCache, the scripts
\* executed so far, the names on the top-level exports object, and the
\* error being thrown ("none" when none); for the record, every error a
\* script raised and every answer sandboxRequire gave
FreshLoad ==
    [cache |-> AllowList, log |-> <<>>, exports |-> {}, err |-> "none",
     raised |-> <<>>, resolved |-> <<>>]

\* an error is raised while `depth` scripts are on the stack
Raise(st, e, depth) == [st EXCEPT !.err = e, !.raised = Append(@, [err |-> e, depth |-> depth])]

\* the packages the host's own require finds
HostInstalled == { <<"pg">> }

\* a variant of the last resort of sandboxRequire that lets the failure of
\* the host's require through
AmbientRequireRaising(id, st) ==
    IF id \in HostInstalled
    THEN [st EXCEPT !.cache = @ \cup {id},
                    !.resolved = Append(@, [id |-> id, how |-> "host", err |-> "none"])]
    ELSE [st EXCEPT !.err = "MODULE_NOT_FOUND",
                    !.resolved = Append(@, [id |-> id, how |-> "placeholder", err |-> "MODULE_NOT_FOUND"])]

\* try { mod = require(id) } catch (e) { moduleCache[id] = {}; return {} }
AmbientRequire(id, st) ==
    [st EXCEPT !.cache = @ \cup {id},
               !.resolved = Append(@, [id |-> id,
                                       how |-> IF id \in HostInstalled THEN "host" ELSE "placeholder",
                                       err |-> "none"])]

RECURSIVE RunStatements(_, _, _)
RECURSIVE RunScript(_, _, _, _)
RECURSIVE sandboxRequire(_, _, _)

\* new Function(..., code) and its call, `depth` scripts being on the stack
RunScript(code, path, st, depth) ==
    IF depth > StackLimit THEN Raise(st, "RangeError", depth)
    ELSE IF HasModuleSyntax(code) THEN Raise(st, "SyntaxError", depth)
    ELSE RunStatements(code, [st EXCEPT !.log = Append(@, [path |-> path, depth |-> depth])], depth)

RunStatements(code, st, depth) ==
    IF Len(code) = 0 \/ st.err # "none" THEN st
    ELSE IF StatementKind(code[1]) = 1
    THEN RunStatements(Tail(code), sandboxRequire(StatementId(code[1]), st, depth), depth)
    ELSE IF StatementKind(code[1]) = 3 THEN Raise(st, "Error", depth)
    ELSE IF StatementKind(code[1]) = 4 /\ depth = 0
    THEN RunStatements(Tail(code), [st EXCEPT !.exports = @ \cup {"up"}], depth)
    ELSE RunStatements(Tail(code), st, depth)

sandboxRequire(id, st, depth) ==
    IF id \in st.cache
    THEN [st EXCEPT !.resolved = Append(@, [id |-> id, how |-> "cache", err |-> "none"])]
    ELSE IF IsRelative(id) /\ VFSIndex(ResolveRelative(id)) # 0
    THEN LET r == RunScript(ScriptText(VFSIndex(ResolveRelative(id))), ResolveRelative(id), st, depth + 1)
         IN IF r.err = "none"
            THEN \* moduleCache[id] = relMod.exports
                 [r EXCEPT !.cache = @ \cup {id},
                           !.resolved = Append(@, [id |-> id, how |-> "store", err |-> "none"])]
            ELSE \* catch (e) { return {}; }
                 [r EXCEPT !.err = "none",
                           !.resolved = Append(@, [id |-> id, how |-> "store-failed", err |-> r.err])]
    ELSE AmbientRequire(id, st)

\* a variant that looks the script up with the resolver of the fs wrappers
getMigrationByResolver(migration) ==
    LET fullPath == MigrationsSegment \o migration
        vfsData == __NPACK_getFromVFS(fullPath)
    IN IF vfsData = 0
       THEN [FreshLoad EXCEPT !.err = "Migration not found in VFS"]
       ELSE RunScript(Rewrite(ScriptText(vfsData)), fullPath, FreshLoad, 0)

getMigration(migration) ==
    LET fullPath == MigrationsSegment \o migration
        vfsData == VFSIndex(fullPath)
    IN IF vfsData = 0
       THEN [FreshLoad EXCEPT !.err = "Migration not found in VFS"]
       ELSE RunScript(Rewrite(ScriptText(vfsData)), fullPath, FreshLoad, 0)

----------------------------------------------------------------------------
(* Module.prototype.require and Module._load, as each evaluation of the    *)
(* generated code wraps them.                                              *)

Knex == <<"knex">>

HostModule(request) ==
    IF request = Knex \/ EndsWith(request, <<Slash>> \o Knex)
    THEN [type |-> "function", name |-> request, wrappers |-> <<>>]
    ELSE [type |-> "object", name |-> request, wrappers |-> <<>>]

RECURSIVE ModuleLoad(_, _)
ModuleLoad(layer, request) ==
    IF layer = 0 THEN HostModule(request)
    ELSE LET loaded == ModuleLoad(layer - 1, request)
         IN IF (request = Knex \/ EndsWith(request, <<Slash>> \o Knex)) /\ loaded.type = "function"
            THEN [loaded EXCEPT !.wrappers = <<"wrappedKnex">> \o @]
            ELSE loaded

\* the host's require ends in Module._load, looked up when it is called
RECURSIVE ModuleRequire(_, _)
ModuleRequire(layer, id) ==
    IF layer = 0 THEN ModuleLoad(installs, id)
    ELSE LET result == ModuleRequire(layer - 1, id)
         IN IF id = Knex /\ result.type = "function"
            THEN [result EXCEPT !.wrappers = <<"preloadKnex">> \o @]
            ELSE result

----------------------------------------------------------------------------
(* Bounds and the inputs the operations are exercised on.                  *)

MaxAssets == 2      \* files collected into one bundle
MaxInstalls == 2    \* evaluations of the generated code in one process
MaxExecuted == 2    \* script executions after which no further load is started

\* path components
MIG == <<"migrations">>
SUB == <<"sub">>
DIST == <<"dist">>
APP == <<"app">>
AJS == <<"a", ".", "js">>
BJS == <<"b", ".", "js">>
CJS == <<"c", ".", "js">>

\* "/" + components.join("/")
Abs(components) == <<Slash>> \o Join(components, Slash)

ForwardToBack(s) == [i \in 1..Len(s) |-> IF s[i] = Slash THEN Backslash ELSE s[i]]

\* the files of the application, relative to its root, as path.relative
\* reports them to scanDirectory
AppFileComponents ==
    { <<MIG, AJS>>, <<MIG, BJS>>, <<MIG, SUB, AJS>>, <<SUB, AJS>>, <<AJS>>,
      <<SUB, DIST, AJS>>, <<APP, AJS>> }

RelativePaths == {Join(c, Slash) : c \in AppFileComponents}

\* every file has its own content: k bytes for the k-th distinct shape
DistinctBytes(rel) ==
    IF rel = Join(<<MIG, AJS>>, Slash) THEN <<65>>
    ELSE IF rel = Join(<<MIG, BJS>>, Slash) THEN <<66, 66>>
    ELSE IF rel = Join(<<MIG, SUB, AJS>>, Slash) THEN <<67, 195, 169>>
    ELSE IF rel = Join(<<SUB, AJS>>, Slash) THEN <<68, 226, 130, 172>>
    ELSE IF rel = Join(<<AJS>>, Slash) THEN <<>>
    ELSE IF rel = Join(<<SUB, DIST, AJS>>, Slash) THEN <<70, 255>>
    ELSE <<71, 71, 71, 71, 71>>

\* directories the bundle may be started from: POSIX, POSIX below a
\* build-output directory, and Windows
BaseDirs ==
    { <<Slash, "app">>,
      <<Slash, "dist", Slash, "app">>,
      <<"x", ":", Backslash, "app">> }

\* absolute paths, in canonical spelling, an application may ask for
RequestBodies ==
    {Abs(c) : c \in AppFileComponents}
    \cup { Abs(<<MIG>>), Abs(<<SUB>>), Abs(<<MIG, SUB>>), Abs(<<SUB, MIG>>),
           Abs(<<MIG, CJS>>), Abs(<<SUB, MIG, AJS>>), Abs(<<MIG, SUB, BJS>>),
           Abs(<<CJS>>), Abs(<<"ln">>), Abs(<<"etc">>), <<Slash>> }

\* path.join(__dirname, "." + body) on the platform of __dirname
UnderBase(body) ==
    IF Includes(dirname, <<Backslash>>) THEN dirname \o ForwardToBack(body) ELSE dirname \o body

\* the spellings in which a request reaches a wrapped primitive
Spellings(body) ==
    { body,
      UnderBase(body),
      FileScheme \o body,
      <<"x", ":">> \o ForwardToBack(body),
      <<Slash, "sub", Slash, "dist">> \o body,
      Tail(body),
      <<Slash>> \o body }

RawPaths == UNION {Spellings(b) : b \in RequestBodies}

\* fewer spellings, for the operations that are exercised on every primitive
CommonPaths == UNION {{b, UnderBase(b)} : b \in RequestBodies} \cup {<<>>}

ReadOptions ==
    { NoOptions,
      [t |-> "string", v |-> "utf8"],
      [t |-> "string", v |-> "utf-8"],
      [t |-> "object", v |-> "utf8"],
      [t |-> "object", v |-> "utf-8"],
      [t |-> "object", v |-> "undefined"] }

OtherOptions == {NoOptions, [t |-> "object", v |-> "undefined"]}

\* the two ways of reading that every primitive run exercises
PlainOptions == {NoOptions, [t |-> "string", v |-> "utf8"]}

\* file contents for the encoding round trip: every byte string up to
\* MaxBytes over bytes that form 1-, 2- and 3-byte characters, stray
\* continuation bytes and a byte that occurs in no UTF-8 text
MaxBytes == 3

ByteValues == {65, 195, 169, 226, 130, 172, 255}

RECURSIVE ByteStrings(_)
ByteStrings(n) ==
    IF n = 0 THEN {<<>>}
    ELSE ByteStrings(n - 1) \cup {Append(b, x) : b \in {c \in ByteStrings(n - 1) : Len(c) = n - 1}, x \in ByteValues}

\* the texts whose encodings are among those byte strings: "A", e-acute
\* and the euro sign
TextCharacters == {65, 233, 8364}

RECURSIVE Texts(_)
Texts(n) ==
    IF n = 0 THEN {<<>>}
    ELSE Texts(n - 1) \cup {Append(t, x) : t \in {u \in Texts(n - 1) : Len(u) = n - 1}, x \in TextCharacters}

CodecFile == Join(<<SUB, AJS>>, Slash)

CodecPaths == {Abs(<<SUB, AJS>>), Abs(<<SUB>>), Abs(<<CJS>>)}

\* migration scripts
Scripts ==
    { <<>>,
      <<Statement(4, 0)>>,
      <<Statement(1, 2), Statement(4, 0)>>,
      <<Statement(2, 2), Statement(5, 0)>>,
      <<Statement(3, 0)>>,
      <<Statement(1, 0)>>,
      <<Statement(6, 0)>>,
      <<Statement(1, 4), Statement(4, 0)>>,
      <<Statement(5, 0)>>,
      <<Statement(1, 7), Statement(4, 0)>> }

ScriptFiles == {Join(<<MIG, AJS>>, Slash), Join(<<MIG, BJS>>, Slash), Join(<<MIG, SUB, AJS>>, Slash)}

MigrationNames == {AJS, BJS, CJS, Join(<<SUB, AJS>>, Slash)}

RequiredIds == {Knex, <<"pg">>, <<Dot, Slash, "lib", Slash, "knex">>}

InstallPaths == {Abs(<<MIG, AJS>>), Abs(<<MIG>>), Abs(<<CJS>>), Abs(<<"ln">>)}

----------------------------------------------------------------------------
(* Packaging (src/bundler/index.js) and launch.                            *)

NoCall == [op |-> "none", path |-> <<>>, options |-> NoOptions]

NoRet == [src |-> "none"]

Init ==
    /\ phase = "pack"
    /\ appFiles = <<>>
    /\ assets = <<>>
    /\ VFS = <<>>
    /\ dirname = <<>>
    /\ installs = 0
    /\ call = NoCall
    /\ ret = NoRet
    /\ origCalls = <<>>
    /\ executed = <<>>

\* assets.set("/" + relativePath.replace(/\\/g, "/"), {content: base64, encoding})
ScanKey(relativePath) == <<Slash>> \o BackToForward(relativePath)

AssetKeys == {assets[i].path : i \in 1..Len(assets)}

\* scanDirectory reaches one more file
Collect(relativePath, bytes) ==
    /\ phase = "pack"
    /\ Len(assets) < MaxAssets
    /\ ScanKey(relativePath) \notin AssetKeys
    /\ appFiles' = Append(appFiles, [path |-> ScanKey(relativePath), bytes |-> bytes])
    /\ assets' = Append(assets, [path |-> ScanKey(relativePath),
                                 content |-> Base64Encode(bytes),
                                 encoding |-> "base64"])
    /\ UNCHANGED <<phase, VFS, dirname, installs, call, ret, origCalls, executed>>

\* the bundle starts in directory d: the generated code is evaluated for
\* the first time, with the collected assets as __NPACK_VFS
Launch(d) ==
    /\ phase = "pack"
    /\ phase' = "run"
    /\ VFS' = assets
    /\ dirname' = d
    /\ installs' = 1
    /\ UNCHANGED <<appFiles, assets, call, ret, origCalls, executed>>

\* the application is running and no call of it is in progress
Idle == phase = "run" /\ call = NoCall

\* the generated code is evaluated once more in the same process
Install ==
    /\ Idle
    /\ installs < MaxInstalls
    /\ installs' = installs + 1
    /\ UNCHANGED <<phase, appFiles, assets, VFS, dirname, call, ret, origCalls, executed>>

----------------------------------------------------------------------------
(* The application's calls.                                                *)

\* a variant in which a record is dropped from the Store once it was read
StoreAfterConsuming(store, op) ==
    IF op \in {"readFileSync", "getMigration"} /\ store # <<>> THEN Tail(store) ELSE store

\* __NPACK_VFS after a wrapped call or a load: every use of it in the
\* generated code is a read (Object.keys, Object.entries, __NPACK_VFS[key],
\* .content, .encoding)
StoreAfter(store, op) == store

Served(op, p, options, r) ==
    /\ call' = [op |-> op, path |-> p, options |-> options]
    /\ ret' = r.ans @@ [wraps |-> r.wraps]
    /\ origCalls' = r.orig
    /\ VFS' = StoreAfter(VFS, op)
    /\ UNCHANGED <<phase, appFiles, assets, dirname, installs, executed>>

\* the resolver and the directory synthesizer, called directly
Resolve(p) ==
    /\ Idle
    /\ call' = [op |-> "getFromVFS", path |-> p, options |-> NoOptions]
    /\ ret' = [src |-> "vfs", type |-> "record", rec |-> __NPACK_getFromVFS(p), wraps |-> 0]
    /\ origCalls' = <<>>
    /\ UNCHANGED <<phase, appFiles, assets, VFS, dirname, installs, executed>>

ListChildren(p) ==
    /\ Idle
    /\ call' = [op |-> "listVFSDir", path |-> p, options |-> NoOptions]
    /\ ret' = [src |-> "vfs", type |-> "listing", list |-> __NPACK_listVFSDir(p), wraps |-> 0]
    /\ origCalls' = <<>>
    /\ UNCHANGED <<phase, appFiles, assets, VFS, dirname, installs, executed>>

ReadFileSync(p, o) == Idle /\ Served("readFileSync", p, o, readFileSync(installs, p, o))

ReadFile(p, o) == Idle /\ Served("promises.readFile", p, o, promisesReadFile(installs, p, o))

ExistsSync(p) == Idle /\ Served("existsSync", p, NoOptions, existsSync(installs, p))

StatSync(p, o) == Idle /\ Served("statSync", p, o, statSync(installs, p, o))

LstatSync(p, o) == Idle /\ Served("lstatSync", p, o, lstatSync(installs, p, o))

ReaddirSync(p, o) == Idle /\ Served("readdirSync", p, o, readdirSync(installs, p, o))

Readdir(p, o) == Idle /\ Served("promises.readdir", p, o, promisesReaddir(installs, p, o))

Opendir(p, o) == Idle /\ Served("promises.opendir", p, o, promisesOpendir(installs, p, o))

\* the migration client asks the migration source for one migration
GetMigration(migration) ==
    /\ Idle
    /\ Len(executed) < MaxExecuted
    /\ call' = [op |-> "getMigration", path |-> migration, options |-> NoOptions]
    /\ LET r == getMigration(migration)
       IN /\ ret' = [src |-> "loader", throws |-> r.err # "none", err |-> r.err,
                     exports |-> r.exports, log |-> r.log, wraps |-> 0,
                     raised |-> r.raised, resolved |-> r.resolved]
          /\ executed' = executed \o r.log
    /\ origCalls' = <<>>
    /\ VFS' = StoreAfter(VFS, "getMigration")
    /\ UNCHANGED <<phase, appFiles, assets, dirname, installs>>

\* the application requires a module
Require(id) ==
    /\ Idle
    /\ call' = [op |-> "require", path |-> id, options |-> NoOptions]
    /\ ret' = [src |-> "require", module |-> ModuleRequire(installs, id), wraps |-> installs]
    /\ origCalls' = <<>>
    /\ UNCHANGED <<phase, appFiles, assets, VFS, dirname, installs, executed>>

\* the application has taken the result; it may call again
Return ==
    /\ phase = "run"
    /\ call # NoCall
    /\ call' = NoCall
    /\ ret' = NoRet
    /\ origCalls' = <<>>
    /\ UNCHANGED <<phase, appFiles, assets, VFS, dirname, installs, executed>>

----------------------------------------------------------------------------
(* Specifications.                                                         *)

CollectApp == \E rel \in RelativePaths : Collect(rel, DistinctBytes(rel))

Start == \E d \in BaseDirs : Launch(d)

\* the resolver and the directory synthesizer on every spelling
NextResolve ==
    \/ CollectApp
    \/ Start
    \/ \E p \in RawPaths \cup {<<>>} : Resolve(p)
    \/ \E p \in RawPaths \cup {<<>>} : ListChildren(p)
    \/ Return

SpecResolve == Init /\ [][NextResolve]_vars

\* every wrapped primitive
NextFs ==
    \/ CollectApp
    \/ Start
    \/ \E p \in CommonPaths, o \in PlainOptions : ReadFileSync(p, o)
    \/ \E p \in CommonPaths, o \in PlainOptions : ReadFile(p, o)
    \/ \E p \in CommonPaths : ExistsSync(p)
    \/ \E p \in CommonPaths, o \in OtherOptions : StatSync(p, o)
    \/ \E p \in CommonPaths, o \in OtherOptions : LstatSync(p, o)
    \/ \E p \in CommonPaths, o \in OtherOptions : ReaddirSync(p, o)
    \/ \E p \in CommonPaths, o \in OtherOptions : Readdir(p, o)
    \/ \E p \in CommonPaths, o \in OtherOptions : Opendir(p, o)
    \/ Return

SpecFs == Init /\ [][NextFs]_vars

\* the metadata primitives
NextStat ==
    \/ CollectApp
    \/ Start
    \/ \E p \in CommonPaths, o \in OtherOptions : StatSync(p, o)
    \/ \E p \in CommonPaths, o \in OtherOptions : LstatSync(p, o)
    \/ Return

SpecStat == Init /\ [][NextStat]_vars

\* one file of every content, read back in every way
NextCodec ==
    \/ \E bytes \in ByteStrings(MaxBytes) : Collect(CodecFile, bytes)
    \/ Launch(<<Slash, "app">>)
    \/ \E p \in CodecPaths, o \in ReadOptions : ReadFileSync(p, o)
    \/ \E p \in CodecPaths, o \in ReadOptions : ReadFile(p, o)
    \/ \E p \in CodecPaths : StatSync(p, NoOptions)
    \/ \E p \in CodecPaths : LstatSync(p, NoOptions)
    \/ Return

SpecCodec == Init /\ [][NextCodec]_vars

\* migration scripts and the loader
NextLoad ==
    \/ \E rel \in ScriptFiles, script \in Scripts : Collect(rel, Utf8Encode(script))
    \/ Launch(<<Slash, "app">>)
    \/ \E m \in MigrationNames : GetMigration(m)
    \/ Return

SpecLoad == Init /\ [][NextLoad]_vars

\* repeated evaluation of the generated code
NextInstall ==
    \/ CollectApp
    \/ Start
    \/ Install
    \/ \E p \in InstallPaths : ReadFileSync(p, NoOptions)
    \/ \E p \in InstallPaths : ExistsSync(p)
    \/ \E p \in InstallPaths : StatSync(p, NoOptions)
    \/ \E p \in InstallPaths : LstatSync(p, NoOptions)
    \/ \E p \in InstallPaths : ReaddirSync(p, NoOptions)
    \/ \E id \in RequiredIds : Require(id)
    \/ Return

SpecInstall == Init /\ [][NextInstall]_vars

----------------------------------------------------------------------------
(* Path arguments that are not plain strings.  A value is [t, v]: its type *)
(* and the text its toString() yields (for a URL the text after file://).  *)

Str(s) == [t |-> "string", v |-> s]

\* !filePath
Falsy(x) ==
    \/ x.t = "undefined"
    \/ x.t = "string" /\ x.v = <<>>
    \/ x.t = "number" /\ x.v = <<"0">>

\* filePath.toString()
TextOf(x) == IF x.t = "url" THEN FileScheme \o x.v ELSE x.v

\* original.includes('migrations') exists on strings and on buffers only
HasIncludes(x) == x.t \in {"string", "buffer"}

\* __NPACK_normalizePath on any value: what it returns or raises
NormalizeValue(x) ==
    IF Falsy(x) THEN Returns(x)
    ELSE IF ~HasIncludes(x) THEN Throws("TypeError")
    ELSE Returns(Str(__NPACK_normalizePath(TextOf(x))))

\* __NPACK_getFromVFS on any value: a normalized value that is no string
\* misses the exact lookup and fails at normalized.endsWith in the loop
GetFromVFSValue(x) ==
    LET n == NormalizeValue(x)
    IN IF n.throws THEN n
       ELSE IF n.value.t = "string" THEN Returns(__NPACK_getFromVFS(TextOf(x)))
       ELSE IF Len(VFS) = 0 THEN Returns(0)
       ELSE Throws("TypeError")

\* __NPACK_listVFSDir on any value, likewise
ListVFSDirValue(x) ==
    LET n == NormalizeValue(x)
    IN IF n.throws THEN n
       ELSE IF n.value.t = "string" THEN Returns(__NPACK_listVFSDir(TextOf(x)))
       ELSE IF Len(VFS) = 0 THEN Returns([kind |-> "null", items |-> <<>>])
       ELSE Throws("TypeError")

PathValues ==
    { Str(<<>>), Str(Abs(<<MIG, AJS>>)), Str(<<"dist", Slash>> \o AJS),
      [t |-> "url", v |-> Abs(<<MIG, AJS>>)],
      [t |-> "buffer", v |-> Abs(<<MIG, AJS>>)],
      [t |-> "number", v |-> <<"7">>],
      [t |-> "number", v |-> <<"0">>],
      [t |-> "undefined", v |-> <<>>] }

\* fs.readFileSync(x) through the outermost wrapper
ReadFileSyncValue(x) ==
    /\ Idle
    /\ call' = [op |-> "readFileSync.value", path |-> x, options |-> NoOptions]
    /\ LET vfsData == GetFromVFSValue(x)
       IN IF vfsData.throws
          THEN ret' = [src |-> "wrapper", throws |-> TRUE, err |-> vfsData.value] /\ origCalls' = <<>>
          ELSE IF vfsData.value # 0
          THEN ret' = FileData(vfsData.value, NoOptions) /\ origCalls' = <<>>
          ELSE ret' = [src |-> "orig"] /\ origCalls' = <<Invocation("readFileSync", x, NoOptions)>>
    /\ UNCHANGED <<phase, appFiles, assets, VFS, dirname, installs, executed>>

\* fs.readdirSync(x) through the outermost wrapper
ReaddirSyncValue(x) ==
    /\ Idle
    /\ call' = [op |-> "readdirSync.value", path |-> x, options |-> NoOptions]
    /\ LET vfsFiles == ListVFSDirValue(x)
       IN IF vfsFiles.throws
          THEN ret' = [src |-> "wrapper", throws |-> TRUE, err |-> vfsFiles.value] /\ origCalls' = <<>>
          ELSE IF vfsFiles.value.kind # "null"
          THEN ret' = [src |-> "vfs", type |-> "array", data |-> vfsFiles.value.items] /\ origCalls' = <<>>
          ELSE ret' = [src |-> "orig"] /\ origCalls' = <<Invocation("readdirSync", x, NoOptions)>>
    /\ UNCHANGED <<phase, appFiles, assets, VFS, dirname, installs, executed>>

\* wrapped primitives on every kind of path value
NextValues ==
    \/ CollectApp
    \/ Start
    \/ \E x \in PathValues : ReadFileSyncValue(x)
    \/ \E x \in PathValues : ReaddirSyncValue(x)
    \/ Return

SpecValues == Init /\ [][NextValues]_vars

----------------------------------------------------------------------------
(* VFSMigrationSource.getMigrations and getMigrationName.                  *)

\* the order of Array.prototype.sort() on the names of migration files:
\* by code unit, which on these tokens is the order of their first letters
\* ("md" before "migrations")
TokenRank(t) ==
    CASE t = "." -> 1 [] t = "/" -> 2 [] t = "a" -> 3 [] t = "b" -> 4 [] t = "c" -> 5
      [] t = "js" -> 6 [] t = "md" -> 7 [] t = "migrations" -> 8 [] OTHER -> 9

RECURSIVE Before(_, _)
Before(x, y) ==
    IF y = <<>> THEN FALSE
    ELSE IF x = <<>> THEN TRUE
    ELSE IF TokenRank(x[1]) # TokenRank(y[1]) THEN TokenRank(x[1]) < TokenRank(y[1])
    ELSE Before(Tail(x), Tail(y))

RECURSIVE InsertSorted(_, _)
InsertSorted(x, sorted) ==
    IF sorted = <<>> THEN <<x>>
    ELSE IF Before(sorted[1], x) \/ sorted[1] = x THEN <<sorted[1]>> \o InsertSorted(x, Tail(sorted))
    ELSE <<x>> \o sorted

RECURSIVE Sort(_)
Sort(list) == IF list = <<>> THEN <<>> ELSE InsertSorted(list[1], Sort(Tail(list)))

\* path.replace('/migrations/', ''): the first occurrence goes
ReplaceFirst(path, piece) ==
    IF Includes(path, piece)
    THEN SubSeq(path, 1, IndexOf(path, piece)) \o Slice(path, IndexOf(path, piece) + Len(piece))
    ELSE path

\* .filter(path => path.startsWith('/migrations/') && path.endsWith('.js'))
IsMigrationScript(path) == StartsWith(path, MigrationsSegment) /\ EndsWith(path, DotJs)

\* the filtered keys, in Store order, with the prefix removed
RECURSIVE MigrationIds(_)
MigrationIds(i) ==
    IF i > Len(VFS) THEN <<>>
    ELSE IF IsMigrationScript(VFS[i].path)
    THEN <<ReplaceFirst(VFS[i].path, MigrationsSegment)>> \o MigrationIds(i + 1)
    ELSE MigrationIds(i + 1)

\* a variant that leaves the identifiers in Store order
getMigrationsUnsorted == MigrationIds(1)

getMigrations == Sort(MigrationIds(1))

getMigrationName(migration) == migration

\* the files of an application with migrations, a note beside them and a
\* script outside the namespace
SourceFiles ==
    { Join(<<MIG, AJS>>, Slash), Join(<<MIG, BJS>>, Slash), Join(<<MIG, SUB, AJS>>, Slash),
      Join(<<MIG, <<"a", ".", "md">> >>, Slash), Join(<<SUB, AJS>>, Slash) }

GetMigrations ==
    /\ Idle
    /\ call' = [op |-> "getMigrations", path |-> <<>>, options |-> NoOptions]
    /\ ret' = [src |-> "source", list |-> getMigrations, wraps |-> 0]
    /\ origCalls' = <<>>
    /\ UNCHANGED <<phase, appFiles, assets, VFS, dirname, installs, executed>>

GetMigrationName(migration) ==
    /\ Idle
    /\ call' = [op |-> "getMigrationName", path |-> migration, options |-> NoOptions]
    /\ ret' = [src |-> "source", name |-> getMigrationName(migration), wraps |-> 0]
    /\ origCalls' = <<>>
    /\ UNCHANGED <<phase, appFiles, assets, VFS, dirname, installs, executed>>

\* the migration source as the migration client uses it
NextSource ==
    \/ \E rel \in SourceFiles : Collect(rel, Utf8Encode(<<Statement(4, 0)>>))
    \/ Start
    \/ GetMigrations
    \/ \E m \in MigrationNames : GetMigrationName(m)
    \/ \E m \in MigrationNames : GetMigration(m)
    \/ Return

SpecSource == Init /\ [][NextSource]_vars

----------------------------------------------------------------------------
(* Properties.                                                             *)

Normalized == __NPACK_normalizePath(call.path)

ReadOps == {"readFileSync", "promises.readFile"}

WrappedOps ==
    {"readFileSync", "promises.readFile", "existsSync", "statSync", "lstatSync",
     "readdirSync", "promises.readdir", "promises.opendir"}

\* the collected file a Store record was made from
OriginalBytes(idx) == appFiles[idx].bytes

\* C1: a request whose normalized form is a Store key resolves to the
\* record under that key, and a request for <__dirname>/<key> resolves to
\* the record under <key> (keys that hold no build-output segment).
C1_ExactHit ==
    call.op = "getFromVFS" =>
        /\ (VFSIndex(Normalized) # 0 => ret.rec = VFSIndex(Normalized))
        /\ \A k \in VFSKeys :
              (~Includes(k \o <<Slash>>, DistSegment) /\ call.path = UnderBase(k))
                  => ret.rec = VFSIndex(k)

\* the first half of C1 on its own
C1_NormalizedKeyHit ==
    (call.op = "getFromVFS" /\ VFSIndex(Normalized) # 0) => ret.rec = VFSIndex(Normalized)

\* no key matches by any rule and no listing is synthesized
Unmatched(p) ==
    /\ VFSIndex(__NPACK_normalizePath(p)) = 0
    /\ \A i \in 1..Len(VFS) : ~EntryHit(VFS[i].path, __NPACK_normalizePath(p))
    /\ __NPACK_listVFSDir(p).kind = "null"

\* C2: on a path that nothing virtualizes, a wrapped primitive invokes its
\* own original exactly once with the same arguments and returns what it
\* returns or raises what it raises.
C2_Transparency ==
    (call.op \in WrappedOps /\ Unmatched(call.path)) =>
        /\ origCalls = <<Invocation(call.op, call.path, call.options)>>
        /\ ret.src = "orig"
        /\ ret.value = Real(call.op, call.path, call.options)

\* a key matches the request by the suffix rule, in either direction
SuffixRule(vfsPath, normalized) == SuffixHit(vfsPath, normalized) \/ PrefixHit(vfsPath, normalized)

\* C3: when some key matches the normalized request by the suffix rule,
\* the returned record is one that matches by the suffix rule.
C3_SuffixBeforeFilename ==
    (call.op = "getFromVFS" /\ \E i \in 1..Len(VFS) : SuffixRule(VFS[i].path, Normalized)) =>
        /\ ret.rec # 0
        /\ SuffixRule(VFS[ret.rec].path, Normalized)

\* the first path segments that follow prefix + "/" across the Store keys
ChildrenUnder(prefix) ==
    { Split(Slice(k, Len(prefix) + 1), Slash)[1] :
        k \in {x \in VFSKeys : StartsWith(x, prefix \o <<Slash>>)} }

Listed == {ret.list.items[i] : i \in 1..Len(ret.list.items)}

\* C4 as claimed: listChildren(d) is exactly the set of first segments
\* following normalize(d) + "/" across the Store keys.
C4_ListChildrenExact ==
    call.op = "listVFSDir" => Listed = ChildrenUnder(Normalized)

\* C4 as amended: a directory whose normalized path ends with /migrations
\* also lists the first segments under /migrations/; the listing holds no
\* name twice, and it is null exactly when there is no name to list.
C4_ListChildrenWithNamespace ==
    call.op = "listVFSDir" =>
        /\ Listed = ChildrenUnder(Normalized)
                     \cup (IF EndsWith(Normalized, MigrationsDir) THEN ChildrenUnder(MigrationsDir) ELSE {})
        /\ Len(ret.list.items) = Cardinality(Listed)
        /\ (ret.list.kind = "null") = (Listed = {})

C4_Witness ==
    /\ call.op = "listVFSDir"
    /\ Normalized # MigrationsDir
    /\ EndsWith(Normalized, MigrationsDir)
    /\ Len(ret.list.items) = 2
    /\ \E k \in VFSKeys : Len(Split(k, Slash)) = 4

\* top-level executions of the script stored under path
TopLevelRuns(path) == {i \in 1..Len(executed) : executed[i].path = path /\ executed[i].depth = 0}

\* C5: however often load(k) is called, the script under k is executed
\* once.
C5_ExecutedOnce ==
    (call.op = "getMigration" /\ ~ret.throws) =>
        Cardinality(TopLevelRuns(MigrationsSegment \o call.path)) = 1

\* C6: a path whose full-content read is answered from the Store exists
\* and has metadata from the Store, without the real filesystem.
C6_CrossPrimitive ==
    (call.op \in ReadOps /\ ret.src = "vfs") =>
        /\ existsSync(installs, call.path).orig = <<>>
        /\ existsSync(installs, call.path).ans.data = TRUE
        /\ statSync(installs, call.path, NoOptions).orig = <<>>

C8_TextOrBytes ==
    (call.op \in ReadOps /\ ret.src = "vfs") =>
        /\ EncodingOf(call.options) \in {"utf8", "utf-8"} =>
              /\ ret.type = "string"
              /\ ret.data = Utf8Decode(OriginalBytes(ret.rec))
        /\ EncodingOf(call.options) = "undefined" =>
              /\ ret.type = "buffer"
              /\ ret.data = OriginalBytes(ret.rec)
        /\ readFileSync(installs, call.path, call.options).ans
              = promisesReadFile(installs, call.path, call.options).ans

\* the texts among the application's files
AppTexts == { <<>>, <<65>>, <<66, 66>>, <<67, 233>>, <<68, 8364>>, <<71, 71, 71, 71, 71>> }

\* C9: every collected file, read by its key, comes back with its original
\* bytes, and with its original text when read as text.
C9_RoundTrip ==
    (call.op = "readFileSync" /\ call.path \in VFSKeys) =>
        /\ ret.src = "vfs"
        /\ call.options = NoOptions => ret.data = OriginalBytes(VFSIndex(call.path))
        /\ WantsUtf8(call.options) =>
              \A t \in AppTexts :
                  OriginalBytes(VFSIndex(call.path)) = Utf8Encode(t) => ret.data = t

\* C10: after any number of installations a call on a path that is not
\* virtualized passes through one wrapper, and the knex constructor that
\* require returns is wrapped once.  (lstatSync is left to C2: its wrapper
\* goes through the statSync wrapper.)
C10_WrappedOnce ==
    /\ (call.op \in WrappedOps \ {"lstatSync"} /\ ret.src = "orig") => ret.wraps = 1
    /\ (call.op = "require" /\ call.path = Knex) => Len(ret.module.wrappers) = 1

\* C11: whatever value a wrapped primitive is handed as its path, the
\* interceptor raises no error of its own: the call is answered from the
\* Store or reaches the original primitive.
C11_NormalizeNeverFails ==
    call.op \in {"readFileSync.value", "readdirSync.value"} => ret.src # "wrapper"

\* the canonical form of C12
Canonical(n) ==
    /\ StartsWith(n, <<Slash>>)
    /\ ~Includes(n, DoubleSlash)
    /\ ~Includes(n, <<Backslash>>)
    /\ ~StartsWith(n, FileScheme)
    /\ ~Includes(n, <<":">>)
    /\ ~Includes(n, DistSegment)

\* C12: the result of __NPACK_normalizePath is canonical for every
\* input string, the empty string included.
C12_CanonicalForm ==
    call.op \in {"getFromVFS", "listVFSDir"} => Canonical(Normalized)

\* C12 on the strings that are handed over as values
C12_CanonicalValues ==
    (call.op = "readFileSync.value" /\ call.path.t = "string" /\ call.path.v # <<>>)
        => Canonical(__NPACK_normalizePath(call.path.v))

\* C13: a load whose path '/migrations/' + k is no Store key raises the
\* not-found error, executes no script and resolves no dependency.
C13_NotFound ==
    (call.op = "getMigration" /\ VFSIndex(MigrationsSegment \o call.path) = 0) =>
        /\ ret.throws
        /\ ret.err = "Migration not found in VFS"
        /\ ret.log = <<>>
        /\ ret.resolved = <<>>
        /\ ret.exports = {}

C13_Witness ==
    /\ call.op = "getMigration"
    /\ VFSIndex(MigrationsSegment \o call.path) = 0
    /\ __NPACK_getFromVFS(MigrationsSegment \o call.path) # 0
    /\ ret.throws

\* C14: a load during which a script raised an error, the top-level script
\* or a dependency from the Store, raises to its caller.
C14_ErrorsReraised ==
    (call.op = "getMigration" /\ ret.raised # <<>>) => ret.throws

\* C15: a dependency from the Store is rewritten like a top-level script:
\* it fails with a SyntaxError only if its rewritten text still has module
\* syntax.
C15_SamePipeline ==
    call.op = "getMigration" =>
        \A i \in 1..Len(ret.resolved) :
            (ret.resolved[i].how = "store-failed" /\ ret.resolved[i].err = "SyntaxError") =>
                HasModuleSyntax(Rewrite(ScriptText(VFSIndex(ResolveRelative(ret.resolved[i].id)))))

\* answers of sandboxRequire for ids that are neither on the allow-list nor
\* relative references found in the Store
AmbientAnswers ==
    { i \in 1..Len(ret.resolved) :
        /\ ret.resolved[i].how # "cache"
        /\ ret.resolved[i].id \notin AllowList
        /\ ~(IsRelative(ret.resolved[i].id) /\ VFSIndex(ResolveRelative(ret.resolved[i].id)) # 0) }

\* C16: such an id is answered by the host's require when the host has the
\* package and by a placeholder when it has not, and no error is raised to
\* the script: a load fails only with an error that a script raised.
C16_AmbientFallback ==
    call.op = "getMigration" =>
        /\ \A i \in AmbientAnswers :
              /\ ret.resolved[i].how = (IF ret.resolved[i].id \in HostInstalled THEN "host" ELSE "placeholder")
              /\ ret.resolved[i].err = "none"
        /\ (ret.throws /\ ret.resolved # <<>>) => ret.raised # <<>>

C16_Witness ==
    /\ call.op = "getMigration"
    /\ \E i \in AmbientAnswers : ret.resolved[i].how = "placeholder"
    /\ ~ret.throws
    /\ "up" \in ret.exports

Enumerated == {ret.list[i] : i \in 1..Len(ret.list)}

\* ascending, no identifier twice, and every identifier is found by
\* getMigration
SortedAndLoadable ==
    /\ \A i \in 1..(Len(ret.list) - 1) : Before(ret.list[i], ret.list[i + 1])
    /\ \A id \in Enumerated : getMigration(getMigrationName(id)).err # "Migration not found in VFS"

\* C17 as claimed: getMigrations returns, sorted and without duplicates,
\* the identifiers of all Store keys under /migrations/; every one of them
\* is found by getMigration; getMigrationName is the identity.
C17_EnumerateAll ==
    /\ call.op = "getMigrations" =>
          /\ Enumerated = { Slice(k, Len(MigrationsSegment)) :
                              k \in {x \in VFSKeys : StartsWith(x, MigrationsSegment)} }
          /\ SortedAndLoadable
    /\ call.op = "getMigrationName" => ret.name = call.path

\* C17 as amended: the same for the Store keys under /migrations/ that end
\* with .js.
C17_EnumerateScripts ==
    /\ call.op = "getMigrations" =>
          /\ Enumerated = { Slice(k, Len(MigrationsSegment)) :
                              k \in {x \in VFSKeys : StartsWith(x, MigrationsSegment) /\ EndsWith(x, DotJs)} }
          /\ SortedAndLoadable
    /\ call.op = "getMigrationName" => ret.name = call.path

C17_Witness ==
    /\ call.op = "getMigrations"
    /\ Len(VFS) = 2
    /\ VFS[1].path = MigrationsSegment \o BJS
    /\ ret.list = <<AJS, BJS>>


----------------------------------------------------------------------------
(* The knex constructor behind the two wrappers.  A configuration is       *)
(* [given, migrations, directory, migrationSource]: whether an argument    *)
(* was passed, whether it has a migrations section, and the two keys of    *)
(* the section, each "none" when the key is missing.                       *)

VFSSource == "VFSMigrationSource"

\* config && config.migrations
HasMigrations(config) == config.given /\ config.migrations

\* config.migrationSource = new global.VFSMigrationSource();
\* delete config.directory
Inject(config) ==
    [config EXCEPT !.directory = "none", !.migrationSource = VFSSource]

\* the function returned by the require wrapper for 'knex'
preloadKnex(config) ==
    IF HasMigrations(config) THEN Inject(config) ELSE config

\* a variant that injects the source and leaves the directory in the section
wrappedKnexKeepsDirectory(config) ==
    IF HasMigrations(config) /\ config.migrationSource = "none"
    THEN [config EXCEPT !.migrationSource = VFSSource]
    ELSE config

\* the function returned by the _load wrapper for 'knex' and '.../knex'
wrappedKnex(config) ==
    IF HasMigrations(config) /\ config.migrationSource = "none"
    THEN Inject(config)
    ELSE config

\* the configuration originalKnex.call(this, config) of the innermost
\* wrapper hands to the host's constructor; wrappers[1] is the outermost
RECURSIVE HandedConfig(_, _)
HandedConfig(wrappers, config) ==
    IF wrappers = <<>> THEN config
    ELSE HandedConfig(Tail(wrappers),
                      IF Head(wrappers) = "preloadKnex" THEN preloadKnex(config)
                      ELSE wrappedKnex(config))

Directories == {"none", "./migrations"}

MigrationSources == {"none", "user"}

NoSection(given) ==
    [given |-> given, migrations |-> FALSE, directory |-> "none", migrationSource |-> "none"]

Configs ==
    {NoSection(FALSE), NoSection(TRUE)}
    \cup {[given |-> TRUE, migrations |-> TRUE, directory |-> d, migrationSource |-> m] :
            d \in Directories, m \in MigrationSources}

KnexIds == {Knex, <<Dot, Slash, "lib", Slash, "knex">>}

\* the application requires the client under id and constructs it
Construct(id, config) ==
    /\ Idle
    /\ call' = [op |-> "knex", path |-> id, options |-> NoOptions]
    /\ LET module == ModuleRequire(installs, id)
       IN ret' = [src |-> "knex", wrappers |-> module.wrappers, config |-> config,
                  handed |-> HandedConfig(module.wrappers, config)]
    /\ origCalls' = <<>>
    /\ UNCHANGED <<phase, appFiles, assets, VFS, dirname, installs, executed>>

NextKnex ==
    \/ CollectApp
    \/ Start
    \/ Install
    \/ \E id \in KnexIds, config \in Configs : Construct(id, config)
    \/ Return

SpecKnex == Init /\ [][NextKnex]_vars

Constructed == phase = "run" /\ call.op = "knex"

Injected(config) ==
    /\ HasMigrations(config)
    /\ config.directory = "none"
    /\ config.migrationSource = VFSSource

\* C18 as stated: a configuration that names a migration directory reaches
\* the original constructor with the directory removed and a
\* VFSMigrationSource in its place; a configuration without a migrations
\* section reaches it unchanged.
C18_DirectoryReplaced ==
    Constructed =>
        /\ (HasMigrations(ret.config) /\ ret.config.directory # "none")
              => Injected(ret.handed)
        /\ ~HasMigrations(ret.config) => ret.handed = ret.config

\* C18, amended: a migrations section without a migration source of its own
\* reaches the original constructor with the directory removed and a
\* VFSMigrationSource in place; a section that brings its own source is
\* replaced in the same way when the client was required as 'knex' and is
\* handed over unchanged when it was required under another id ending in
\* '/knex'; a configuration without a migrations section is unchanged.
C18_SourceInjected ==
    Constructed =>
        /\ (HasMigrations(ret.config) /\ ret.config.migrationSource = "none")
              => Injected(ret.handed)
        /\ (HasMigrations(ret.config) /\ ret.config.migrationSource # "none")
              => IF call.path = Knex THEN Injected(ret.handed)
                 ELSE ret.handed = ret.config
        /\ ~HasMigrations(ret.config) => ret.handed = ret.config

C18_Witness ==
    /\ Constructed
    /\ call.path # Knex
    /\ HasMigrations(ret.config)
    /\ ret.config.directory # "none"
    /\ ret.config.migrationSource = "none"
    /\ Injected(ret.handed)


----------------------------------------------------------------------------
(* A bundle in which a scanned directory holds a migrations directory of   *)
(* its own, next to the one at the root of the application.                *)

NestedFiles ==
    { Join(<<SUB, MIG, AJS>>, Slash), Join(<<MIG, AJS>>, Slash),
      Join(<<MIG, BJS>>, Slash), Join(<<SUB, AJS>>, Slash) }

NestedRequests ==
    { Abs(<<MIG, AJS>>), Abs(<<MIG, SUB, AJS>>), Abs(<<SUB, MIG, AJS>>),
      Abs(<<SUB, MIG, BJS>>), Abs(<<APP, MIG, AJS>>), Abs(<<SUB, AJS>>),
      Abs(<<MIG, CJS>>), Abs(<<MIG>>) }

NextNamespace ==
    \/ \E rel \in NestedFiles : Collect(rel, DistinctBytes(rel))
    \/ Start
    \/ \E p \in NestedRequests : Resolve(p)
    \/ \E p \in NestedRequests : ListChildren(p)
    \/ Return

SpecNamespace == Init /\ [][NextNamespace]_vars

\* C19: a record returned on the strength of its final filename component
\* alone has a key under the top-level '/migrations/' segment; a record
\* with any other key is returned only when the normalized request equals
\* the key or one is a suffix of the other.
C19_TopLevelNamespaceOnly ==
    (phase = "run" /\ call.op = "getFromVFS" /\ ret.rec # 0) =>
        \/ VFS[ret.rec].path = Normalized
        \/ SuffixRule(VFS[ret.rec].path, Normalized)
        \/ StartsWith(VFS[ret.rec].path, MigrationsSegment)


FinalComponent(path) == Pop(Split(path, Slash))

\* the path names a file directly under /migrations
DirectlyUnderNamespace(path) == path = MigrationsSegment \o FinalComponent(path)

\* C20: when the Store has a key /migrations/f and the normalized request
\* contains '/migrations/' and has final component f, the resolver returns
\* a record, whatever the request is rooted at; a request /migrations/g
\* where no Store key has final component g is absent.
C20_NamespaceFallback ==
    (phase = "run" /\ call.op = "getFromVFS") =>
        /\ (\E k \in VFSKeys :
               /\ DirectlyUnderNamespace(k)
               /\ Includes(Normalized, MigrationsSegment)
               /\ FinalComponent(Normalized) = FinalComponent(k))
              => ret.rec # 0
        /\ (/\ DirectlyUnderNamespace(call.path)
            /\ \A k \in VFSKeys : FinalComponent(k) # FinalComponent(call.path))
              => ret.rec = 0

\* a differently rooted request answered with the record of /migrations/f
C20_Witness ==
    /\ phase = "run"
    /\ call.op = "getFromVFS"
    /\ ret.rec # 0
    /\ DirectlyUnderNamespace(VFS[ret.rec].path)
    /\ Includes(Normalized, MigrationsSegment)
    /\ VFS[ret.rec].path # Normalized
    /\ ~SuffixRule(VFS[ret.rec].path, Normalized)

\* a request /migrations/g that no key can answer
C20_Absent ==
    /\ phase = "run"
    /\ call.op = "getFromVFS"
    /\ VFS # <<>>
    /\ DirectlyUnderNamespace(call.path)
    /\ ret.rec = 0


----------------------------------------------------------------------------
(* The Store at run time: wrapped calls and loads over one bundle.         *)

StorePaths == {Abs(<<MIG, AJS>>), Abs(<<MIG>>), Abs(<<"ln">>)}

\* a script that loads, one that throws, one that requires './b'
StoreScripts == { <<Statement(4, 0)>>, <<Statement(3, 0)>>, <<Statement(1, 2), Statement(4, 0)>> }

NextStore ==
    \/ \E rel \in ScriptFiles, script \in StoreScripts : Collect(rel, Utf8Encode(script))
    \/ Launch(<<Slash, "app">>)
    \/ \E p \in StorePaths : ReadFileSync(p, NoOptions)
    \/ \E p \in StorePaths : ExistsSync(p)
    \/ \E p \in StorePaths : StatSync(p, NoOptions)
    \/ \E p \in StorePaths : ReaddirSync(p, NoOptions)
    \/ \E p \in StorePaths : Opendir(p, NoOptions)
    \/ \E m \in MigrationNames : GetMigration(m)
    \/ Return

SpecStore == Init /\ [][NextStore]_vars

----------------------------------------------------------------------------
(* The directory synthesizer and the two listing primitives.               *)

NextListing ==
    \/ CollectApp
    \/ Start
    \/ \E p \in RawPaths \cup {<<>>} : ListChildren(p)
    \/ \E p \in CommonPaths : ReaddirSync(p, NoOptions)
    \/ \E p \in CommonPaths : Readdir(p, NoOptions)
    \/ Return

SpecListing == Init /\ [][NextListing]_vars

ListingOps == {"readdirSync", "promises.readdir"}

\* C22: __NPACK_listVFSDir returns null or a non-empty list of names, never
\* an empty one; readdirSync and promises.readdir answer from the Store
\* with a non-empty listing only and hand every other call to the original
\* primitive.
C22_NeverEmptyListing ==
    /\ (phase = "run" /\ call.op = "listVFSDir") =>
          /\ ret.list.kind \in {"null", "array"}
          /\ ret.list.kind = "array" <=> ret.list.items # <<>>
    /\ (phase = "run" /\ call.op \in ListingOps) =>
          IF ListedFiles(call.path) # <<>>
          THEN ret.src = "vfs" /\ ret.data = ListedFiles(call.path) /\ origCalls = <<>>
          ELSE ret.src = "orig" /\ origCalls = <<Invocation(call.op, call.path, call.options)>>

\* a directory the Store has nothing under: absent, and handed on
C22_Witness ==
    /\ phase = "run"
    /\ call.op \in ListingOps
    /\ VFS # <<>>
    /\ call.path # <<>>
    /\ ret.src = "orig"
    /\ __NPACK_listVFSDir(call.path).kind = "null"


\* C23: normalizing a normalized path changes nothing.
C23_Idempotent ==
    (phase = "run" /\ call.op = "getFromVFS") =>
        __NPACK_normalizePath(Normalized) = Normalized


\* the name was listed for a key that ends with it: a file, not a directory
DenotesFile(dirPath, name) ==
    LET normalized == __NPACK_normalizePath(dirPath)
    IN \/ normalized \o <<Slash>> \o name \in VFSKeys
       \/ /\ EndsWith(normalized, MigrationsDir)
          /\ MigrationsSegment \o name \in VFSKeys

\* d + "/" + n
Child(dirPath, name) == dirPath \o <<Slash>> \o name

HitInReverseOrder(normalized) ==
    LET hits == {i \in 1..Len(VFS) : EntryHit(VFS[i].path, normalized)}
    IN IF hits # {} THEN SetMax(hits) ELSE 0

\* C25: the record the resolver returns for a non-empty path is the record
\* it returns when the same entries were inserted into the Store in the
\* opposite order.
C25_OrderIndependent ==
    (phase = "run" /\ call.op = "getFromVFS" /\ Normalized # <<>> /\ VFSIndex(Normalized) = 0) =>
        ret.rec = HitInReverseOrder(Normalized)


----------------------------------------------------------------------------
(* Directory entries: promises.scandir, and the handle promises.opendir    *)
(* returns.  The handle is the returned object: `data` is the vfsFiles     *)
(* array its two methods close over; `pos`, `iterDone` belong to the       *)
(* generator of its async iterator, `delivered` lists what the caller got. *)

\* { name, isFile: () => name.includes('.'), isDirectory: () => !name.includes('.') }
Dirent(name) ==
    [name |-> name, isFile |-> Includes(name, <<Dot>>), isDirectory |-> ~Includes(name, <<Dot>>)]

\* __NPACK_SCANDIR is fs.promises.scandir as the first evaluation found
\* it: undefined on the host, so that layer falls back to __NPACK_READDIR
RECURSIVE promisesScandir(_, _, _)
promisesScandir(layer, dirPath, options) ==
    IF layer = 0 THEN CallOriginal("promises.readdir", dirPath, options)
    ELSE LET vfsFiles == __NPACK_listVFSDir(dirPath)
         IN IF vfsFiles.kind # "null"
            THEN Answer([src |-> "vfs", type |-> "dirents", path |-> dirPath,
                         data |-> [i \in 1..Len(vfsFiles.items) |-> Dirent(vfsFiles.items[i])]])
            ELSE Through(IF layer = 1 THEN promisesReaddir(0, dirPath, options)
                         ELSE promisesScandir(layer - 1, dirPath, options))

Scandir(p, o) == Idle /\ Served("promises.scandir", p, o, promisesScandir(installs, p, o))

\* the application holds a handle that promises.opendir made from the Store
HoldsHandle == phase = "run" /\ call.op = "promises.opendir" /\ ret.src = "vfs"

Handle ==
    IF "pos" \in DOMAIN ret THEN ret
    ELSE ret @@ [pos |-> 0, iterDone |-> FALSE, readNull |-> FALSE, delivered |-> <<>>]

\* dir.read(): const file = vfsFiles.shift(); if (!file) return null
DirRead ==
    /\ HoldsHandle
    /\ ret' = IF Handle.data = <<>>
              THEN [Handle EXCEPT !.readNull = TRUE]
              ELSE [Handle EXCEPT !.data = Tail(@),
                                  !.delivered = Append(@, Dirent(Head(Handle.data)))]
    /\ UNCHANGED <<phase, appFiles, assets, VFS, dirname, installs, call, origCalls, executed>>

\* one step of `for await (const entry of dir)`: the for-of loop of the
\* generator takes vfsFiles[pos] while pos < vfsFiles.length
DirNext ==
    /\ HoldsHandle
    /\ ~Handle.iterDone
    /\ ret' = IF Handle.pos < Len(Handle.data)
              THEN [Handle EXCEPT !.pos = @ + 1,
                                  !.delivered = Append(@, Dirent(Handle.data[Handle.pos + 1]))]
              ELSE [Handle EXCEPT !.iterDone = TRUE]
    /\ UNCHANGED <<phase, appFiles, assets, VFS, dirname, installs, call, origCalls, executed>>

License == <<"LICENSE">>

Release == <<"v1", ".", "2">>

DirFiles ==
    { Join(<<MIG, AJS>>, Slash), Join(<<MIG, BJS>>, Slash), Join(<<MIG, SUB, AJS>>, Slash),
      Join(<<SUB, License>>, Slash), Join(<<SUB, Release, AJS>>, Slash) }

DirPaths == {Abs(<<MIG>>), Abs(<<SUB>>), Abs(<<MIG, SUB>>), Abs(<<"etc">>)}

NextDir ==
    \/ \E rel \in DirFiles : Collect(rel, DistinctBytes(rel))
    \/ Start
    \/ \E p \in DirPaths : Opendir(p, NoOptions)
    \/ \E p \in DirPaths : Scandir(p, NoOptions)
    \/ DirRead
    \/ DirNext
    \/ Return

SpecDir == Init /\ [][NextDir]_vars

\* the names handed to the caller so far
DeliveredNames == [i \in 1..Len(Handle.delivered) |-> Handle.delivered[i].name]

\* C26: on one handle, whatever the order of read() calls and iterator
\* steps, no name of the listing is delivered twice, and once read() has
\* returned null and the iterator is exhausted every name was delivered.
C26_EachNameOnce ==
    HoldsHandle =>
        /\ \A i, j \in 1..Len(DeliveredNames) : DeliveredNames[i] = DeliveredNames[j] => i = j
        /\ (Handle.readNull /\ Handle.iterDone) =>
              {DeliveredNames[i] : i \in 1..Len(DeliveredNames)}
                 = {ListedFiles(call.path)[i] : i \in 1..Len(ListedFiles(call.path))}

\* what statSync reports for a path
StatKind(p) ==
    LET a == statSync(installs, p, NoOptions).ans
    IN IF a.src = "vfs" THEN (IF a.isDirectory THEN "directory" ELSE "file")
       ELSE IF a.value.throws THEN "none" ELSE a.value.value.kind

AgreesWithStat(dirPath, e) ==
    /\ e.isDirectory <=> StatKind(Child(dirPath, e.name)) = "directory"
    /\ e.isFile <=> StatKind(Child(dirPath, e.name)) = "file"

\* C27: every entry that promises.scandir returns or a handle of
\* promises.opendir delivers for a directory of the Store is a directory
\* exactly when statSync of directory + "/" + name reports a directory, and
\* a file exactly when it reports a regular file.
C27_EntryKindAgrees ==
    /\ (phase = "run" /\ call.op = "promises.scandir" /\ ret.src = "vfs") =>
          \A i \in 1..Len(ret.data) : AgreesWithStat(call.path, ret.data[i])
    /\ HoldsHandle =>
          \A i \in 1..Len(Handle.delivered) : AgreesWithStat(call.path, Handle.delivered[i])


\* C28: every load ends Cached or Failed after a number of script
\* executions that the Store bounds: the nesting of executions never
\* reaches the depth at which the host's stack is exhausted.
C28_BoundedExecutions ==
    (phase = "run" /\ call.op = "getMigration") =>
        /\ ret.throws \in BOOLEAN
        /\ \A i \in 1..Len(ret.raised) : ret.raised[i].err # "RangeError"


----------------------------------------------------------------------------
(* Scripts of a bundle that has a scanned directory next to migrations.    *)

EscapeFiles == {Join(<<MIG, AJS>>, Slash), Join(<<SUB, AJS>>, Slash)}

\* require('./../../sub/a'); exports.up = ...   /   exports.up = ...   /
\* require('./sub/a'); exports.up = ...
EscapeScripts ==
    { <<Statement(1, 6), Statement(4, 0)>>, <<Statement(4, 0)>>, <<Statement(1, 5), Statement(4, 0)>> }

NextEscape ==
    \/ \E rel \in EscapeFiles, script \in EscapeScripts : Collect(rel, Utf8Encode(script))
    \/ Start
    \/ \E m \in MigrationNames : GetMigration(m)
    \/ Return

SpecEscape == Init /\ [][NextEscape]_vars

\* C29: every script a load executes, the top-level one and every relative
\* dependency, is stored under '/migrations/'.
C29_ConfinedToNamespace ==
    (phase = "run" /\ call.op = "getMigration") =>
        \A i \in 1..Len(ret.log) : StartsWith(ret.log[i].path, MigrationsSegment)


----------------------------------------------------------------------------
(* The runtime that src/bundler/index.js generates (generateVFSCode of the *)
(* main bundler): its own __NPACK_normalizePath and __NPACK_listVFSDir.    *)

bundler_normalizePath(filePath) ==
    IF filePath = <<>> THEN filePath
    ELSE LeadSlash(CollapseSlashes(StripBase(StripScheme(BackToForward(filePath)))))

Root == <<Slash>>

\* one iteration of the loop: startsWith(normalized + "/"), or any key
\* when normalized === "/"; then slice(normalized.length + 1), and the
\* first segment of a non-empty rest is added
bundler_AddChild(files, vfsPath, normalized) ==
    IF \/ StartsWith(vfsPath, normalized \o <<Slash>>)
       \/ normalized = Root /\ StartsWith(vfsPath, <<Slash>>)
    THEN LET relativePath == Slice(vfsPath, Len(normalized) + 1)
         IN IF relativePath # <<>> THEN SetAdd(files, Split(relativePath, Slash)[1]) ELSE files
    ELSE files

RECURSIVE bundler_ListLoop(_, _, _)
bundler_ListLoop(i, files, normalized) ==
    IF i > Len(VFS) THEN files
    ELSE bundler_ListLoop(i + 1, bundler_AddChild(files, VFS[i].path, normalized), normalized)

bundler_listVFSDir(dirPath) ==
    LET files == bundler_ListLoop(1, <<>>, bundler_normalizePath(dirPath))
    IN IF Len(files) > 0 THEN [kind |-> "array", items |-> files] ELSE [kind |-> "null", items |-> <<>>]

BundlerListChildren(p) ==
    /\ Idle
    /\ call' = [op |-> "bundler.listVFSDir", path |-> p, options |-> NoOptions]
    /\ ret' = [src |-> "vfs", type |-> "listing", list |-> bundler_listVFSDir(p), wraps |-> 0]
    /\ origCalls' = <<>>
    /\ UNCHANGED <<phase, appFiles, assets, VFS, dirname, installs, executed>>

\* names are cut after their first character, where slice(2) cuts "/name"
Config == <<"c", "onfig">>

PackageJson == <<"p", "ackage", ".", "json">>

BundlerFiles ==
    { Config \o <<Slash, "app", ".", "json">>, Config \o <<Slash, "db", ".", "json">>,
      PackageJson, <<"d", "ata", Slash, "x", ".", "sql">> }

BundlerDirs == {Root, <<Slash>> \o Config, <<Slash, "app">>, <<Slash, "etc">>}

BundlerFile(rel) == Collect(rel, <<Len(rel)>>)

NextBundler ==
    \/ \E rel \in BundlerFiles : BundlerFile(rel)
    \/ Start
    \/ \E p \in BundlerDirs : BundlerListChildren(p)
    \/ Return

SpecBundler == Init /\ [][NextBundler]_vars

\* the first segment of a key
TopLevelSegment(key) == Split(Slice(key, 1), Slash)[1]

\* C30: in the main bundler's runtime, listing "/" returns exactly the
\* top-level segment names of the Store keys, each complete.
C30_RootListing ==
    (phase = "run" /\ call.op = "bundler.listVFSDir" /\ call.path = Root /\ VFS # <<>>) =>
        /\ ret.list.kind = "array"
        /\ {ret.list.items[i] : i \in 1..Len(ret.list.items)} = {TopLevelSegment(k) : k \in VFSKeys}

====
